---- MODULE Spec2Model ----
(***************************************************************************)
(* Model of assignment1/backend_code-app.py: a Flask service holding one   *)
(* module-level networkx DiGraph (knowledge_graph) and the handlers that   *)
(* read and mutate it.                                                     *)
(*                                                                         *)
(* Strings are sequences of characters; a multi-letter element such as     *)
(* "John Doe" stands for a run of text that neither starts nor ends with   *)
(* whitespace, and " " is one whitespace character.  str.strip() is        *)
(* computed on this representation.                                        *)
(*                                                                         *)
(* A DiGraph is [nodes, edges]: the node set and a function from the       *)
(* ordered pairs that are edges to the edge's 'relationship' attribute.    *)
(* networkx keeps insertion order for iteration; lists built by iterating  *)
(* the graph are modelled as sets (their order is not modelled).           *)
(*                                                                         *)
(* Request bodies are JSON objects whose values are strings (a key may be  *)
(* missing); bodies that are not objects, and non-string values, are       *)
(* outside the modelled inputs.                                            *)
(***************************************************************************)
EXTENDS Integers, Sequences, FiniteSets, TLC

VARIABLES knowledge_graph, request, response, before,
          add_thread, clear_thread, detached

vars == <<knowledge_graph, request, response, before, add_thread, clear_thread, detached>>

\* The request being handled when requests are taken one at a time.
handler_vars == <<request, response, before>>

\* Two requests handled by two threads of the server at once: the position
\* and the locals of each, and the DiGraph objects that knowledge_graph no
\* longer names.
thread_vars == <<add_thread, clear_thread, detached>>

\* ---------------------------------------------------------------- bounds

\* Mutating requests are accepted while the graph holds fewer edges.
MaxEdges == 15

\* Most data rows of an uploaded table.
MaxRows == 2

\* --------------------------------------------------------------- strings

SP == " "

RECURSIVE lstrip(_)
lstrip(s) == IF s # <<>> /\ Head(s) = SP THEN lstrip(Tail(s)) ELSE s

RECURSIVE rstrip(_)
rstrip(s) == IF s # <<>> /\ s[Len(s)] = SP THEN rstrip(SubSeq(s, 1, Len(s) - 1)) ELSE s

\* The text with its letters in lower case.
lower(s) ==
    [i \in DOMAIN s |->
        CASE s[i] = "A" -> "a"
          [] s[i] = "John Doe" -> "john doe"
          [] s[i] = "Dr. Smith" -> "dr. smith"
          [] OTHER -> s[i]]

\* str.strip(): leading and trailing whitespace removed.
strip_no_op(s) == s

strip_casefold(s) == lower(rstrip(lstrip(s)))

strip(s) == rstrip(lstrip(s))

\* dict.get(key, default)
get(data, key, default) == IF key \in DOMAIN data THEN data[key] ELSE default

\* ----------------------------------------------------------------- graph

\* nx.DiGraph(): no node, no edge.
DiGraph == [nodes |-> {}, edges |-> [p \in {} |-> <<>>]]

\* G.add_edge(u, v, relationship=rel): both endpoints become nodes; the edge
\* (u, v) is created, or its attribute overwritten when it exists.
add_edge_reversed(g, u, v, rel) ==
    [nodes |-> g.nodes \cup {u, v},
     edges |-> [p \in DOMAIN g.edges \cup {<<v, u>>} |->
                   IF p = <<v, u>> THEN rel ELSE g.edges[p]]]

add_edge_keep_first(g, u, v, rel) ==
    [nodes |-> g.nodes \cup {u, v},
     edges |-> [p \in DOMAIN g.edges \cup {<<u, v>>} |->
                   IF p \in DOMAIN g.edges THEN g.edges[p] ELSE rel]]

add_edge_resets_source(g, u, v, rel) ==
    [nodes |-> g.nodes \cup {u, v},
     edges |-> [p \in {q \in DOMAIN g.edges : q[1] # u} \cup {<<u, v>>} |->
                   IF p = <<u, v>> THEN rel ELSE g.edges[p]]]

add_edge(g, u, v, rel) ==
    [nodes |-> g.nodes \cup {u, v},
     edges |-> [p \in DOMAIN g.edges \cup {<<u, v>>} |->
                   IF p = <<u, v>> THEN rel ELSE g.edges[p]]]

number_of_nodes(g) == Cardinality(g.nodes)

number_of_edges(g) == Cardinality(DOMAIN g.edges)

predecessors(g, n) == {m \in g.nodes : <<m, n>> \in DOMAIN g.edges}

successors(g, n) == {m \in g.nodes : <<n, m>> \in DOMAIN g.edges}

\* ------------------------------------------------------------ sample data

sample_relationships ==
    << << <<"John Doe">>, <<"enrolled_in">>, <<"Computer Science">> >>,
       << <<"John Doe">>, <<"advised_by">>, <<"Dr. Smith">> >>,
       << <<"Jane Smith">>, <<"enrolled_in">>, <<"Computer Science">> >>,
       << <<"Jane Smith">>, <<"advised_by">>, <<"Dr. Smith">> >>,
       << <<"Dr. Smith">>, <<"teaches">>, <<"Machine Learning">> >>,
       << <<"Dr. Smith">>, <<"belongs_to">>, <<"Computer Science">> >>,
       << <<"Dr. Johnson">>, <<"teaches">>, <<"Data Structures">> >>,
       << <<"Dr. Johnson">>, <<"belongs_to">>, <<"Computer Science">> >>,
       << <<"Machine Learning">>, <<"offered_by">>, <<"Computer Science">> >>,
       << <<"Data Structures">>, <<"offered_by">>, <<"Computer Science">> >>,
       << <<"Computer Science">>, <<"part_of">>, <<"Engineering Department">> >>,
       << <<"Research Group A">>, <<"led_by">>, <<"Dr. Smith">> >>,
       << <<"John Doe">>, <<"member_of">>, <<"Research Group A">> >> >>

\* The k-th pass of the loop of initialize_sample_data on the graph g.
seed_loop_step(g, k) ==
    LET r == sample_relationships[k]
    IN add_edge(g, r[1], r[3], r[2])

\* The loop of initialize_sample_data over the first k sample relationships,
\* applied to the graph g that knowledge_graph names.
RECURSIVE seed_loop(_, _)
seed_loop(g, k) ==
    IF k = 0 THEN g
    ELSE seed_loop_step(seed_loop(g, k - 1), k)

initialize_sample_data(g) == seed_loop(g, Len(sample_relationships))

\* ------------------------------------------------------------- responses

\* jsonify(payload), status: the HTTP response of a handler.
Response(payload, status) == [py_type |-> "Response", status |-> status, json |-> payload]

\* flask's JSON provider serialises dicts, lists, strings, numbers, booleans
\* and None; a Response object inside the payload raises TypeError.
is_response(v) == "py_type" \in DOMAIN v

None == [py_type |-> "NoneType"]

\* The two loops of get_graph_data_dict() over the graph.
node_items(g) == {[id |-> n, label |-> n, title |-> <<"Entity: ", n>>] : n \in g.nodes}

edge_items(g) ==
    {[from |-> p[1], to |-> p[2], label |-> g.edges[p], arrows |-> "to",
      title |-> <<p[1], " --[", g.edges[p], "]--> ", p[2]>>] : p \in DOMAIN g.edges}

\* get_graph_data_dict(): the vis.js view of the graph.
get_graph_data_dict(g) ==
    [success |-> TRUE,
     nodes |-> node_items(g),
     edges |-> edge_items(g),
     stats |-> [total_nodes |-> number_of_nodes(g), total_edges |-> number_of_edges(g)]]

\* Its except branch: iterating a dict that another thread resizes raises
\* RuntimeError.
graph_data_error ==
    [success |-> FALSE,
     message |-> <<"Error getting graph data: ", "dictionary changed size during iteration">>]

\* get_graph_data(): the route handler; it returns a Response, not a dict.
get_graph_data(g) ==
    LET data == get_graph_data_dict(g)
    IN IF data.success THEN Response(data, 200) ELSE Response(data, 500)

\* ---------------------------------------------------------- add_relationship

add_relationship_unvalidated(g, data) ==
    LET entity1 == strip(get(data, "entity1", <<>>))
        relationship == strip(get(data, "relationship", <<>>))
        entity2 == strip(get(data, "entity2", <<>>))
        g2 == add_edge(g, entity1, entity2, relationship)
    IN [graph |-> g2,
        response |-> Response([success |-> TRUE,
                               message |-> <<"Relationship added: ", entity1, " --[",
                                             relationship, "]--> ", entity2>>,
                               graph_data |-> get_graph_data_dict(g2)], 200)]

\* The handler as a function of the graph and the JSON body: the graph it
\* leaves and the response it returns.
add_relationship(g, data) ==
    LET entity1 == strip(get(data, "entity1", <<>>))
        relationship == strip(get(data, "relationship", <<>>))
        entity2 == strip(get(data, "entity2", <<>>))
    IN IF entity1 = <<>> \/ relationship = <<>> \/ entity2 = <<>>
       THEN [graph |-> g,
             response |-> Response([success |-> FALSE,
                                    message |-> <<"All fields (Entity 1, Relationship, Entity 2) are required">>],
                                   400)]
       ELSE LET g2 == add_edge(g, entity1, entity2, relationship)
            IN [graph |-> g2,
                response |-> Response([success |-> TRUE,
                                       message |-> <<"Relationship added: ", entity1, " --[",
                                                     relationship, "]--> ", entity2>>,
                                       graph_data |-> get_graph_data_dict(g2)], 200)]

\* ----------------------------------------------------------------- query_graph

\* Exact fractions num/den in lowest terms stand for the floats networkx returns.
RECURSIVE gcd(_, _)
gcd(a, b) == IF b = 0 THEN a ELSE gcd(b, a % b)

Fraction(num, den) == LET d == gcd(num, den) IN [num |-> num \div d, den |-> den \div d]

FractionSum(x, y) == Fraction(x.num * y.den + y.num * x.den, x.den * y.den)

RECURSIVE SumOver(_, _)
SumOver(S, f) ==
    IF S = {} THEN 0
    ELSE LET x == CHOOSE x \in S : TRUE IN f[x] + SumOver(S \ {x}, f)

RECURSIVE FractionSumOver(_, _)
FractionSumOver(S, f) ==
    IF S = {} THEN Fraction(0, 1)
    ELSE LET x == CHOOSE x \in S : TRUE IN FractionSum(f[x], FractionSumOver(S \ {x}, f))

\* Breadth-first search from a source: dist[n] is the hop count of every node
\* reached, sigma[n] the number of shortest paths to it.
RECURSIVE bfs_from(_, _, _, _, _)
bfs_from(g, frontier, dist, sigma, k) ==
    LET next == {m \in g.nodes \ DOMAIN dist : \E u \in frontier : <<u, m>> \in DOMAIN g.edges}
    IN IF next = {} THEN [dist |-> dist, sigma |-> sigma]
       ELSE bfs_from(g, next,
                     dist @@ [m \in next |-> k + 1],
                     sigma @@ [m \in next |->
                                  SumOver({u \in frontier : <<u, m>> \in DOMAIN g.edges}, sigma)],
                     k + 1)

bfs(g, source) == bfs_from(g, {source}, source :> 0, source :> 1, 0)

\* {}
EmptyDict == [x \in {} |-> <<>>]

\* nx.shortest_path(G, source, target): a path of the fewest hops, rebuilt
\* from the hop counts.  Which of several equally short paths networkx returns
\* depends on the adjacency order, which is not modelled: paths_to is the set
\* of the paths it can return.
RECURSIVE paths_to(_, _, _)
paths_to(g, dist, target) ==
    IF dist[target] = 0 THEN {<<target>>}
    ELSE UNION {{Append(p, target) : p \in paths_to(g, dist, u)} :
                u \in {u \in DOMAIN dist :
                          dist[u] = dist[target] - 1 /\ <<u, target>> \in DOMAIN g.edges}}

\* The dicts that map every target of targets to one of its paths.
RECURSIVE path_dicts(_, _, _)
path_dicts(g, dist, targets) ==
    IF targets = {} THEN {EmptyDict}
    ELSE LET t == CHOOSE t \in targets : TRUE
         IN {(t :> p) @@ d : p \in paths_to(g, dist, t),
                            d \in path_dicts(g, dist, targets \ {t})}

\* The loop over knowledge_graph.nodes() without its test target != entity:
\* nx.shortest_path(G, entity, entity) is [entity].
shortest_paths_with_source(g, entity) ==
    LET dist == bfs(g, entity).dist
    IN path_dicts(g, dist, DOMAIN dist)

\* The loop over knowledge_graph.nodes(): paths[target] for every target other
\* than entity on which nx.shortest_path does not raise NetworkXNoPath.  The
\* value is the set of the dicts the loop can build.
shortest_paths(g, entity) ==
    LET dist == bfs(g, entity).dist
    IN path_dicts(g, dist, DOMAIN dist \ {entity})

\* nx.degree_centrality(G)[n]: in-degree plus out-degree over n - 1.
degree_centrality(g, n) ==
    IF number_of_nodes(g) <= 1 THEN Fraction(1, 1)
    ELSE Fraction(Cardinality(predecessors(g, n)) + Cardinality(successors(g, n)),
                  number_of_nodes(g) - 1)

\* nx.betweenness_centrality(G)[v], normalized, endpoints excluded: the sum over
\* ordered pairs (s, t), both other than v, of the share of shortest s-t paths
\* through v, over (n - 1)(n - 2).
betweenness_centrality(g, v) ==
    LET n == number_of_nodes(g)
        from_v == bfs(g, v)
        through(s) ==
            LET from_s == bfs(g, s)
                targets == {t \in (DOMAIN from_s.dist \cap DOMAIN from_v.dist) \ {s, v} :
                               v \in DOMAIN from_s.dist
                               /\ from_s.dist[v] + from_v.dist[t] = from_s.dist[t]}
            IN FractionSumOver(targets,
                   [t \in targets |->
                       Fraction(from_s.sigma[v] * from_v.sigma[t], from_s.sigma[t])])
        sources == g.nodes \ {v}
        total == FractionSumOver(sources, [s \in sources |-> through(s)])
    IN IF n <= 2 THEN total
       ELSE Fraction(total.num, total.den * (n - 1) * (n - 2))

neighbors(g, entity) ==
    [incoming |-> {[entity |-> pred, relationship |-> g.edges[<<pred, entity>>]] :
                   pred \in predecessors(g, entity)},
     outgoing |-> {[entity |-> succ, relationship |-> g.edges[<<entity, succ>>]] :
                   succ \in successors(g, entity)}]

\* entity in knowledge_graph
entity_in_graph_always(g, entity) == TRUE

entity_in_graph(g, entity) == entity \in g.nodes

\* The handler as a function of the graph, the JSON body and the dict of
\* shortest paths its loop builds (one of shortest_paths); the graph is only
\* read.
query_graph_known_types_only(g, data, paths) ==
    LET query_type == get(data, "query_type", <<>>)
        entity == strip(get(data, "entity", <<>>))
    IN IF entity = <<>>
       THEN Response([success |-> FALSE,
                      message |-> <<"Entity name is required for query">>], 400)
       ELSE IF ~entity_in_graph(g, entity)
       THEN Response([success |-> FALSE,
                      message |-> <<"Entity ", entity, " not found in the graph">>], 404)
       ELSE IF query_type \notin {<<"neighbors">>, <<"shortest_path">>, <<"centrality">>, <<"all">>}
       THEN Response([success |-> FALSE, message |-> <<"Unknown query type">>], 400)
       ELSE Response([success |-> TRUE,
                      entity |-> entity,
                      query_type |-> query_type,
                      results |->
                          (IF query_type \in {<<"neighbors">>, <<"all">>}
                           THEN "neighbors" :> neighbors(g, entity) ELSE EmptyDict)
                          @@ (IF query_type \in {<<"shortest_path">>, <<"all">>}
                                 /\ number_of_nodes(g) > 1
                              THEN "shortest_paths" :> paths ELSE EmptyDict)
                          @@ (IF query_type \in {<<"centrality">>, <<"all">>}
                              THEN "centrality" :>
                                      [degree |-> degree_centrality(g, entity),
                                       betweenness |-> betweenness_centrality(g, entity)]
                              ELSE EmptyDict)], 200)

query_graph(g, data, paths) ==
    LET query_type == get(data, "query_type", <<>>)
        entity == strip(get(data, "entity", <<>>))
    IN IF entity = <<>>
       THEN Response([success |-> FALSE,
                      message |-> <<"Entity name is required for query">>], 400)
       ELSE IF ~entity_in_graph(g, entity)
       THEN Response([success |-> FALSE,
                      message |-> <<"Entity ", entity, " not found in the graph">>], 404)
       ELSE LET r1 == IF query_type = <<"neighbors">> \/ query_type = <<"all">>
                      THEN "neighbors" :> neighbors(g, entity)
                      ELSE EmptyDict
                r2 == IF (query_type = <<"shortest_path">> \/ query_type = <<"all">>)
                         /\ number_of_nodes(g) > 1
                      THEN "shortest_paths" :> paths
                      ELSE EmptyDict
                r3 == IF query_type = <<"centrality">> \/ query_type = <<"all">>
                      THEN "centrality" :>
                              [degree |-> degree_centrality(g, entity),
                               betweenness |-> betweenness_centrality(g, entity)]
                      ELSE EmptyDict
            IN Response([success |-> TRUE,
                         entity |-> entity,
                         query_type |-> query_type,
                         results |-> r1 @@ r2 @@ r3], 200)

\* --------------------------------------------------- graph_data, graph_stats

\* Nodes joined to n by edges taken in either direction.
RECURSIVE weak_component(_, _)
weak_component(g, seen) ==
    LET next == {m \in g.nodes \ seen :
                    \E u \in seen : <<u, m>> \in DOMAIN g.edges \/ <<m, u>> \in DOMAIN g.edges}
    IN IF next = {} THEN seen ELSE weak_component(g, seen \cup next)

\* nx.is_weakly_connected(G), for a graph with a node.
is_weakly_connected(g) ==
    LET n == CHOOSE n \in g.nodes : TRUE IN weak_component(g, {n}) = g.nodes

\* nx.density(G) of a directed graph: m / (n (n - 1)), 0 for fewer than two nodes.
density(g) ==
    LET n == number_of_nodes(g)
    IN IF n <= 1 THEN Fraction(0, 1) ELSE Fraction(number_of_edges(g), n * (n - 1))

\* get_graph_stats(): is_weakly_connected raises on a graph with no node, and
\* the except branch answers.
get_graph_stats(g) ==
    IF g.nodes = {}
    THEN Response([success |-> FALSE,
                   message |-> <<"Error getting graph stats: ",
                                 "Connectivity is undefined for the null graph.">>], 500)
    ELSE Response([success |-> TRUE,
                   stats |-> [total_nodes |-> number_of_nodes(g),
                              total_edges |-> number_of_edges(g),
                              is_connected |-> is_weakly_connected(g),
                              density |-> density(g),
                              \* every edge adds one to the degree of each of its ends
                              average_degree |-> Fraction(2 * number_of_edges(g),
                                                          number_of_nodes(g))]], 200)

\* ---------------------------------------------------------------- clear_graph

\* The reset without the rebinding to a new DiGraph: the sample data is added
\* to the graph as it is.
clear_graph_no_rebind(g) ==
    LET g2 == initialize_sample_data(g)
    IN [graph |-> g2,
        response |-> Response([success |-> FALSE,
                               message |-> <<"Error clearing graph: ",
                                             "Object of type Response is not JSON serializable">>],
                              500)]

\* clear_graph(): knowledge_graph is rebound to a new DiGraph and re-seeded;
\* the payload's graph_data is what get_graph_data() returns, a Response, so
\* jsonify raises TypeError and the except branch answers.
clear_graph_response(node_count, edge_count, g2) ==
    LET payload == [success |-> TRUE,
                    message |-> <<"Graph cleared and reset. Removed ", node_count,
                                  " nodes and ", edge_count, " edges.">>,
                    graph_data |-> get_graph_data(g2)]
    IN IF is_response(payload.graph_data)
       THEN Response([success |-> FALSE,
                      message |-> <<"Error clearing graph: ",
                                    "Object of type Response is not JSON serializable">>],
                     500)
       ELSE Response(payload, 200)

clear_graph(g) ==
    LET node_count == number_of_nodes(g)
        edge_count == number_of_edges(g)
        g2 == initialize_sample_data(DiGraph)
    IN [graph |-> g2, response |-> clear_graph_response(node_count, edge_count, g2)]

\* ------------------------------------------------------------------ upload_csv

required_columns == {"Entity1", "Relationship", "Entity2"}

\* A float NaN, the value pandas gives a missing cell.
NaN == [py_type |-> "float", text |-> <<"nan">>]

PyStr(text) == [py_type |-> "str", text |-> text]

\* One cell as pd.read_csv parses it with its default na_values: an empty
\* field is missing (NaN); any other text, whitespace included, is kept as
\* the string it is.
read_csv_cell(text) == IF text = <<>> THEN NaN ELSE PyStr(text)

\* str(value): 'nan' for the float NaN, the string itself for a string.
str(value) == value.text

\* A line of the file that holds no character is skipped (skip_blank_lines):
\* with a single column, that is a row whose cell is empty.
blank_line(columns, row) == Cardinality(columns) = 1 /\ \A c \in columns : row[c] = <<>>

\* pd.read_csv(file): the DataFrame of a file with a header line; rows keep
\* the file's order.
read_csv(content) ==
    [columns |-> content.columns,
     rows |-> LET kept == SelectSeq(content.rows, LAMBDA r : ~blank_line(content.columns, r))
              IN [i \in 1..Len(kept) |-> [c \in content.columns |-> read_csv_cell(kept[i][c])]]]

\* One iteration of the row loop: acc is [graph, added_count].
upload_row(acc, row) ==
    LET entity1 == strip(str(row["Entity1"]))
        relationship == strip(str(row["Relationship"]))
        entity2 == strip(str(row["Entity2"]))
    IN IF entity1 # <<>> /\ relationship # <<>> /\ entity2 # <<>>
       THEN [graph |-> add_edge(acc.graph, entity1, entity2, relationship),
             added_count |-> acc.added_count + 1]
       ELSE acc

\* for index, row in df.iterrows(), over the first k rows.  No statement of the
\* loop body raises on string or NaN cells, so errors stays empty.
RECURSIVE upload_rows(_, _, _)
upload_rows(g, rows, k) ==
    IF k = 0 THEN [graph |-> g, added_count |-> 0]
    ELSE upload_row(upload_rows(g, rows, k - 1), rows[k])

\* The column check with any() in place of all(): a table with some of the
\* required columns reaches the row loop, where row[<missing column>] raises
\* KeyError for every row.
upload_csv_any_column(g, files) ==
    IF "file" \notin DOMAIN files
    THEN [graph |-> g,
          response |-> Response([success |-> FALSE, message |-> <<"No file provided">>], 400)]
    ELSE IF files.file.filename = <<>>
    THEN [graph |-> g,
          response |-> Response([success |-> FALSE, message |-> <<"No file selected">>], 400)]
    ELSE IF files.file.content.kind = "empty"
    THEN [graph |-> g,
          response |-> Response([success |-> FALSE,
                                 message |-> <<"Error processing CSV: ",
                                               "No columns to parse from file">>], 500)]
    ELSE LET df == read_csv(files.file.content)
         IN IF ~(\E col \in required_columns : col \in df.columns)
            THEN [graph |-> g,
                  response |-> Response([success |-> FALSE,
                                         message |-> <<"CSV must contain columns: ",
                                                       "Entity1, Relationship, Entity2">>], 400)]
            ELSE IF ~(required_columns \subseteq df.columns)
            THEN [graph |-> g,
                  response |-> Response([success |-> TRUE,
                                         message |-> <<"Successfully added ", 0,
                                                       " relationships from CSV">>,
                                         added_count |-> 0,
                                         errors |-> [i \in DOMAIN df.rows |-> <<"Row ", i, ": KeyError">>],
                                         graph_data |-> get_graph_data_dict(g)], 200)]
            ELSE LET done == upload_rows(g, df.rows, Len(df.rows))
                 IN [graph |-> done.graph,
                     response |-> Response([success |-> TRUE,
                                            message |-> <<"Successfully added ", done.added_count,
                                                          " relationships from CSV">>,
                                            added_count |-> done.added_count,
                                            errors |-> None,
                                            graph_data |-> get_graph_data_dict(done.graph)], 200)]

\* The handler as a function of the graph and request.files.
upload_csv(g, files) ==
    IF "file" \notin DOMAIN files
    THEN [graph |-> g,
          response |-> Response([success |-> FALSE, message |-> <<"No file provided">>], 400)]
    ELSE IF files.file.filename = <<>>
    THEN [graph |-> g,
          response |-> Response([success |-> FALSE, message |-> <<"No file selected">>], 400)]
    ELSE IF files.file.content.kind = "empty"
    THEN \* pd.read_csv raises EmptyDataError; the outer except answers
         [graph |-> g,
          response |-> Response([success |-> FALSE,
                                 message |-> <<"Error processing CSV: ",
                                               "No columns to parse from file">>], 500)]
    ELSE LET df == read_csv(files.file.content)
         IN IF ~(\A col \in required_columns : col \in df.columns)
            THEN [graph |-> g,
                  response |-> Response([success |-> FALSE,
                                         message |-> <<"CSV must contain columns: ",
                                                       "Entity1, Relationship, Entity2">>], 400)]
            ELSE LET done == upload_rows(g, df.rows, Len(df.rows))
                 IN [graph |-> done.graph,
                     response |-> Response([success |-> TRUE,
                                            message |-> <<"Successfully added ", done.added_count,
                                                          " relationships from CSV">>,
                                            added_count |-> done.added_count,
                                            errors |-> None,
                                            graph_data |-> get_graph_data_dict(done.graph)], 200)]

\* ------------------------------------------------------------------ inputs

EntityInputs == {<<"A">>, <<SP, "A", SP>>, <<"John Doe">>, <<"Dr. Smith">>, <<>>, <<SP>>}

RelationshipInputs == {<<"knows">>, <<"knows", SP>>, <<"advised_by">>, <<>>, <<SP, SP>>}

AddKeys == {"entity1", "relationship", "entity2"}

\* A body whose entities differ in letter case only.
CaseBodies ==
    {[entity1 |-> <<"a">>, relationship |-> <<"knows">>, entity2 |-> <<"A">>]}

\* JSON bodies of add_relationship: any subset of the keys, each with a string.
AddBodies ==
    {data \in UNION {[K -> EntityInputs \cup RelationshipInputs] : K \in SUBSET AddKeys} :
        \A k \in DOMAIN data :
            data[k] \in (IF k = "relationship" THEN RelationshipInputs ELSE EntityInputs)}
    \cup CaseBodies

QueryEntityInputs == {<<"A">>, <<"a">>, <<"A", SP>>, <<"Dr. Smith">>, <<>>, <<SP>>}

QueryTypeInputs ==
    {<<"neighbors">>, <<"shortest_path">>, <<"centrality">>, <<"all">>, <<"degree">>}

\* JSON bodies of query: entity and query_type, either of which may be missing.
QueryBodies ==
    {data \in UNION {[K -> QueryEntityInputs \cup QueryTypeInputs] :
                     K \in SUBSET {"entity", "query_type"}} :
        \A k \in DOMAIN data :
            data[k] \in (IF k = "entity" THEN QueryEntityInputs ELSE QueryTypeInputs)}

\* Text of the cells of an uploaded table, by column.
CsvCells(column) ==
    CASE column = "Entity1" -> {<<"A">>, <<>>}
      [] column = "Relationship" -> {<<"knows">>, <<"advised_by">>}
      [] column = "Entity2" -> {<<"Dr. Smith">>, <<SP>>}

CsvRows(columns) ==
    {row \in [columns -> UNION {CsvCells(c) : c \in columns}] :
        \A c \in columns : row[c] \in CsvCells(c)}

CsvTables ==
    UNION {UNION {[1..n -> CsvRows(columns)] : n \in 0..MaxRows} :
           columns \in (SUBSET required_columns) \ {{}}}

\* request.files: no 'file' part; a part with no file selected (empty
\* filename, empty content); an empty file; a CSV file with a header line.
UploadFiles ==
    {[x \in {} |-> <<>>]}
    \cup {[file |-> [filename |-> <<>>, content |-> [kind |-> "empty"]]]}
    \cup {[file |-> [filename |-> <<"data.csv">>, content |-> [kind |-> "empty"]]]}
    \cup {[file |-> [filename |-> <<"data.csv">>,
                     content |-> [kind |-> "csv", columns |-> DOMAIN rows[1], rows |-> rows]]] :
          rows \in {t \in CsvTables : Len(t) > 0}}
    \cup {[file |-> [filename |-> <<"data.csv">>,
                     content |-> [kind |-> "csv", columns |-> columns, rows |-> <<>>]]] :
          columns \in (SUBSET required_columns) \ {{}}}

\* ---------------------------------------------------------------- actions

NoRequest == [op |-> "none"]

NoResponse == [py_type |-> "none"]

Idle == response = NoResponse

NoThread == [pc |-> "none"]

Init ==
    /\ knowledge_graph = initialize_sample_data(DiGraph)
    /\ request = NoRequest
    /\ response = NoResponse
    /\ before = initialize_sample_data(DiGraph)
    /\ add_thread = NoThread
    /\ clear_thread = NoThread
    /\ detached = <<>>

\* POST /api/add_relationship
AddRelationship ==
    /\ UNCHANGED thread_vars
    /\ Idle
    /\ number_of_edges(knowledge_graph) < MaxEdges
    /\ \E data \in AddBodies :
          LET r == add_relationship(knowledge_graph, data)
          IN /\ knowledge_graph' = r.graph
             /\ response' = r.response
             /\ request' = [op |-> "add_relationship", data |-> data]
    /\ before' = knowledge_graph

\* POST /api/upload_csv
UploadCsv ==
    /\ UNCHANGED thread_vars
    /\ Idle
    /\ number_of_edges(knowledge_graph) < MaxEdges
    /\ \E files \in UploadFiles :
          LET r == upload_csv(knowledge_graph, files)
          IN /\ knowledge_graph' = r.graph
             /\ response' = r.response
             /\ request' = [op |-> "upload_csv", files |-> files]
    /\ before' = knowledge_graph

\* POST /api/query
QueryGraph ==
    /\ UNCHANGED thread_vars
    /\ Idle
    /\ \E data \in QueryBodies :
          \E paths \in shortest_paths(knowledge_graph, strip(get(data, "entity", <<>>))) :
             /\ response' = query_graph(knowledge_graph, data, paths)
             /\ request' = [op |-> "query", data |-> data]
    /\ before' = knowledge_graph
    /\ UNCHANGED knowledge_graph

\* GET /api/graph_data
GetGraphData ==
    /\ UNCHANGED thread_vars
    /\ Idle
    /\ response' = get_graph_data(knowledge_graph)
    /\ request' = [op |-> "graph_data"]
    /\ before' = knowledge_graph
    /\ UNCHANGED knowledge_graph

\* GET /api/graph_stats
GetGraphStats ==
    /\ UNCHANGED thread_vars
    /\ Idle
    /\ response' = get_graph_stats(knowledge_graph)
    /\ request' = [op |-> "graph_stats"]
    /\ before' = knowledge_graph
    /\ UNCHANGED knowledge_graph

\* POST /api/clear_graph
ClearGraph ==
    /\ UNCHANGED thread_vars
    /\ Idle
    /\ LET r == clear_graph(knowledge_graph)
       IN /\ knowledge_graph' = r.graph
          /\ response' = r.response
    /\ request' = [op |-> "clear_graph"]
    /\ before' = knowledge_graph

\* The response is sent; the server is ready for the next request.
Deliver ==
    /\ UNCHANGED thread_vars
    /\ ~Idle
    /\ request' = NoRequest
    /\ response' = NoResponse
    /\ before' = knowledge_graph
    /\ UNCHANGED knowledge_graph

Next ==
    \/ AddRelationship
    \/ UploadCsv
    \/ QueryGraph
    \/ GetGraphData
    \/ GetGraphStats
    \/ ClearGraph
    \/ Deliver

Spec == Init /\ [][Next]_vars

\* ------------------------------------------- two requests handled at once

\* The development server handles each request in a thread of its own; the
\* handlers take no lock.  One POST /api/add_relationship and one POST
\* /api/clear_graph run as two threads whose steps interleave.  A step is one
\* access to the shared graph: a load of the global name, a call of a graph
\* method on the object loaded, or one pass of an iteration over the graph.
\* DiGraph objects are numbered in the order of their creation: object
\* Len(detached) + 1 is the one knowledge_graph names, and detached holds
\* the earlier ones.

RaceBodies == AddBodies

\* knowledge_graph = nx.DiGraph(): the global names a new object; the old one
\* stays alive for a thread that holds it.
rebind_in_place(objects, g) == [detached |-> objects, graph |-> DiGraph]

rebind(objects, g) == [detached |-> Append(objects, g), graph |-> DiGraph]

RaceInit ==
    /\ knowledge_graph = initialize_sample_data(DiGraph)
    /\ request = NoRequest
    /\ response = NoResponse
    /\ before = initialize_sample_data(DiGraph)
    /\ detached = <<>>
    /\ \E data \in RaceBodies :
          add_thread = [pc |-> "parse", data |-> data, entity1 |-> <<>>,
                        relationship |-> <<>>, entity2 |-> <<>>, target |-> 0,
                        nodes |-> {}, edges |-> {}, response |-> NoResponse]
    /\ clear_thread = [pc |-> "count_nodes", node_count |-> 0, edge_count |-> 0,
                       k |-> 0, response |-> NoResponse]

\* add_relationship: the fields are read and validated.
AddParse ==
    /\ add_thread.pc = "parse"
    /\ LET entity1 == strip(get(add_thread.data, "entity1", <<>>))
           relationship == strip(get(add_thread.data, "relationship", <<>>))
           entity2 == strip(get(add_thread.data, "entity2", <<>>))
       IN IF entity1 = <<>> \/ relationship = <<>> \/ entity2 = <<>>
          THEN add_thread' = [add_thread EXCEPT
                                 !.pc = "done",
                                 !.response = add_relationship(DiGraph, add_thread.data).response]
          ELSE add_thread' = [add_thread EXCEPT
                                 !.pc = "load", !.entity1 = entity1,
                                 !.relationship = relationship, !.entity2 = entity2]
    /\ UNCHANGED <<knowledge_graph, clear_thread, detached, handler_vars>>

\* knowledge_graph.add_edge(...): the global name is looked up.
AddLoadGraph ==
    /\ add_thread.pc = "load"
    /\ add_thread' = [add_thread EXCEPT !.pc = "call", !.target = Len(detached) + 1]
    /\ UNCHANGED <<knowledge_graph, clear_thread, detached, handler_vars>>

\* knowledge_graph.add_edge(...): the method runs on the object looked up.
AddEdge ==
    /\ add_thread.pc = "call"
    /\ IF add_thread.target = Len(detached) + 1
       THEN /\ knowledge_graph' = add_edge(knowledge_graph, add_thread.entity1,
                                           add_thread.entity2, add_thread.relationship)
            /\ UNCHANGED detached
       ELSE /\ detached' = [detached EXCEPT ![add_thread.target] =
                               add_edge(@, add_thread.entity1, add_thread.entity2,
                                        add_thread.relationship)]
            /\ UNCHANGED knowledge_graph
    /\ add_thread' = [add_thread EXCEPT !.pc = "nodes"]
    /\ UNCHANGED <<clear_thread, handler_vars>>

\* get_graph_data_dict(): the loop over knowledge_graph.nodes().
AddReadNodes ==
    /\ add_thread.pc = "nodes"
    /\ add_thread' = [add_thread EXCEPT !.pc = "edges", !.nodes = node_items(knowledge_graph)]
    /\ UNCHANGED <<knowledge_graph, clear_thread, detached, handler_vars>>

\* get_graph_data_dict(): the loop over knowledge_graph.edges(data=True).
AddReadEdges ==
    /\ add_thread.pc = "edges"
    /\ add_thread' = [add_thread EXCEPT !.pc = "stats", !.edges = edge_items(knowledge_graph)]
    /\ UNCHANGED <<knowledge_graph, clear_thread, detached, handler_vars>>

\* get_graph_data_dict(): a pass of the seed loop resizes the graph while
\* one of the two loops iterates it; the except branch returns the error
\* dict, which add_relationship puts in its success payload.
AddReadTorn ==
    /\ add_thread.pc \in {"nodes", "edges"}
    /\ clear_thread.pc = "seed"
    /\ clear_thread.k < Len(sample_relationships)
    /\ LET g2 == seed_loop_step(knowledge_graph, clear_thread.k + 1)
       IN /\ \/ number_of_nodes(g2) # number_of_nodes(knowledge_graph)
             \/ number_of_edges(g2) # number_of_edges(knowledge_graph)
          /\ knowledge_graph' = g2
    /\ clear_thread' = [clear_thread EXCEPT !.k = @ + 1]
    /\ add_thread' = [add_thread EXCEPT
                         !.pc = "done",
                         !.response = Response([success |-> TRUE,
                                                message |-> <<"Relationship added: ",
                                                              add_thread.entity1, " --[",
                                                              add_thread.relationship, "]--> ",
                                                              add_thread.entity2>>,
                                                graph_data |-> graph_data_error], 200)]
    /\ UNCHANGED <<detached, handler_vars>>

\* get_graph_data_dict() returns with the stats; add_relationship answers.
AddRespond ==
    /\ add_thread.pc = "stats"
    /\ add_thread' = [add_thread EXCEPT
                         !.pc = "done",
                         !.response =
                             Response([success |-> TRUE,
                                       message |-> <<"Relationship added: ",
                                                     add_thread.entity1, " --[",
                                                     add_thread.relationship, "]--> ",
                                                     add_thread.entity2>>,
                                       graph_data |->
                                           [success |-> TRUE,
                                            nodes |-> add_thread.nodes,
                                            edges |-> add_thread.edges,
                                            stats |-> [total_nodes |-> number_of_nodes(knowledge_graph),
                                                       total_edges |-> number_of_edges(knowledge_graph)]]],
                                      200)]
    /\ UNCHANGED <<knowledge_graph, clear_thread, detached, handler_vars>>

\* clear_graph: node_count = knowledge_graph.number_of_nodes()
ClearCountNodes ==
    /\ clear_thread.pc = "count_nodes"
    /\ clear_thread' = [clear_thread EXCEPT !.pc = "count_edges",
                                            !.node_count = number_of_nodes(knowledge_graph)]
    /\ UNCHANGED <<knowledge_graph, add_thread, detached, handler_vars>>

\* clear_graph: edge_count = knowledge_graph.number_of_edges()
ClearCountEdges ==
    /\ clear_thread.pc = "count_edges"
    /\ clear_thread' = [clear_thread EXCEPT !.pc = "rebind",
                                            !.edge_count = number_of_edges(knowledge_graph)]
    /\ UNCHANGED <<knowledge_graph, add_thread, detached, handler_vars>>

\* clear_graph: knowledge_graph = nx.DiGraph()
ClearRebind ==
    /\ clear_thread.pc = "rebind"
    /\ LET r == rebind(detached, knowledge_graph)
       IN /\ detached' = r.detached
          /\ knowledge_graph' = r.graph
    /\ clear_thread' = [clear_thread EXCEPT !.pc = "seed"]
    /\ UNCHANGED <<add_thread, handler_vars>>

\* initialize_sample_data: one pass of the loop, on the object the global names.
ClearSeedStep ==
    /\ clear_thread.pc = "seed"
    /\ clear_thread.k < Len(sample_relationships)
    /\ knowledge_graph' = seed_loop_step(knowledge_graph, clear_thread.k + 1)
    /\ clear_thread' = [clear_thread EXCEPT !.k = @ + 1]
    /\ UNCHANGED <<add_thread, detached, handler_vars>>

\* clear_graph: the loop is over; the payload is built and answered.
ClearRespond ==
    /\ clear_thread.pc = "seed"
    /\ clear_thread.k = Len(sample_relationships)
    /\ clear_thread' = [clear_thread EXCEPT
                           !.pc = "done",
                           !.response = clear_graph_response(clear_thread.node_count,
                                                             clear_thread.edge_count,
                                                             knowledge_graph)]
    /\ UNCHANGED <<knowledge_graph, add_thread, detached, handler_vars>>

RaceNext ==
    \/ AddParse
    \/ AddLoadGraph
    \/ AddEdge
    \/ AddReadNodes
    \/ AddReadEdges
    \/ AddReadTorn
    \/ AddRespond
    \/ ClearCountNodes
    \/ ClearCountEdges
    \/ ClearRebind
    \/ ClearSeedStep
    \/ ClearRespond

SpecRace == RaceInit /\ [][RaceNext]_vars

\* ------------------------------------------------- vocabulary of the properties

\* A field that is missing from the body reads as the empty string.
Field(key) == IF key \in DOMAIN request.data THEN request.data[key] ELSE <<>>

\* Empty or whitespace only.
IsBlank(text) == \A i \in 1..Len(text) : text[i] = SP

\* The text between the first and the last non-whitespace character.
Trimmed(text) ==
    IF IsBlank(text) THEN <<>>
    ELSE LET first == CHOOSE i \in 1..Len(text) :
                         text[i] # SP /\ \A j \in 1..(i - 1) : text[j] = SP
             last == CHOOSE i \in 1..Len(text) :
                        text[i] # SP /\ \A j \in (i + 1)..Len(text) : text[j] = SP
         IN SubSeq(text, first, last)

IsAdd == request.op = "add_relationship"

AddWellFormed ==
    IsAdd /\ ~IsBlank(Field("entity1")) /\ ~IsBlank(Field("relationship"))
          /\ ~IsBlank(Field("entity2"))

\* What a client reads back right after the request: GET /api/graph_data and
\* POST /api/query {entity, query_type: neighbors}.
GraphDataNow == get_graph_data(knowledge_graph).json

NeighborsNow(entity) ==
    query_graph(knowledge_graph,
                [entity |-> entity, query_type |-> <<"neighbors">>],
                EmptyDict).json.results.neighbors

\* The labels graph_data and neighbors report for the ordered pair (s, t).
LabelsReported(s, t) ==
    {e.label : e \in {x \in GraphDataNow.edges : x.from = s /\ x.to = t}}
    \cup {e.label : e \in {x \in response.json.graph_data.edges : x.from = s /\ x.to = t}}
    \cup {n.relationship : n \in {x \in NeighborsNow(s).outgoing : x.entity = t}}
    \cup {n.relationship : n \in {x \in NeighborsNow(t).incoming : x.entity = s}}

\* The part of C1 that holds of every well-formed add: success, and the edge
\* visible in graph_data and in both neighbor lists.
AddedEdgeVisible ==
    LET e1 == Trimmed(Field("entity1"))
        rel == Trimmed(Field("relationship"))
        e2 == Trimmed(Field("entity2"))
    IN /\ response.status = 200
       /\ response.json.success = TRUE
       /\ \E e \in response.json.graph_data.edges : e.from = e1 /\ e.to = e2 /\ e.label = rel
       /\ \E e \in GraphDataNow.edges : e.from = e1 /\ e.to = e2 /\ e.label = rel
       /\ [entity |-> e2, relationship |-> rel] \in NeighborsNow(e1).outgoing
       /\ [entity |-> e1, relationship |-> rel] \in NeighborsNow(e2).incoming
       \* the example: a new source entity has this one outgoing neighbor and no incoming one
       /\ (e1 \notin before.nodes /\ e1 # e2) =>
             NeighborsNow(e1) = [incoming |-> {},
                                 outgoing |-> {[entity |-> e2, relationship |-> rel]}]

ReverseEdgeNotCreated ==
    LET e1 == Trimmed(Field("entity1"))
        e2 == Trimmed(Field("entity2"))
    IN <<e2, e1>> \in DOMAIN knowledge_graph.edges => <<e2, e1>> \in DOMAIN before.edges

\* C1 (as stated): every add_relationship request whose three fields are
\* non-empty after trimming succeeds with status 200; right afterwards the edge
\* (entity1, entity2) with the label is in graph_data, entity2 is an outgoing
\* neighbor of entity1 and entity1 an incoming neighbor of entity2 with that
\* label; and no edge (entity2, entity1) is created unless it already existed.
C1_AsStated == AddWellFormed => (AddedEdgeVisible /\ ReverseEdgeNotCreated)

\* C1 (amended): as C1, where the request creates no edge (entity2, entity1)
\* unless it already existed or entity1 = entity2 (the added edge is then a
\* self-loop, which is its own reverse).
C1_AddVisibleAndDirected ==
    AddWellFormed =>
        /\ AddedEdgeVisible
        /\ Trimmed(Field("entity1")) # Trimmed(Field("entity2")) => ReverseEdgeNotCreated

\* A padded new entity A was added with an edge to an existing entity.
C1_Witness ==
    /\ AddWellFormed
    /\ request.data.entity1 = <<SP, "A", SP>>
    /\ request.data.entity2 = <<"Dr. Smith">>
    /\ <<"A">> \notin before.nodes
    /\ response.status = 200

\* C2: an add_relationship request in which entity1, relationship or entity2
\* is missing, empty or whitespace-only is answered 400 with success = false,
\* and the graph (nodes, edges, labels) is what it was before the request.
C2_InvalidAddRejected ==
    (IsAdd /\ ~AddWellFormed) =>
        /\ response.status = 400
        /\ response.json.success = FALSE
        /\ knowledge_graph = before

\* A request with a whitespace-only relationship, and one with entity2 missing.
C2_Witness ==
    /\ IsAdd
    /\ \/ /\ DOMAIN request.data = AddKeys
          /\ request.data.relationship = <<SP, SP>>
          /\ ~IsBlank(request.data.entity1)
          /\ ~IsBlank(request.data.entity2)
       \/ /\ DOMAIN request.data = {"entity1", "relationship"}
          /\ ~IsBlank(request.data.entity1)
          /\ ~IsBlank(request.data.relationship)
    /\ response.status = 400

\* An add that succeeded on an ordered pair that was already an edge.
AddOverwrites ==
    /\ AddWellFormed
    /\ response.status = 200
    /\ <<Trimmed(Field("entity1")), Trimmed(Field("entity2"))>> \in DOMAIN before.edges

OverwriteReplacesLabel ==
    LET s == Trimmed(Field("entity1"))
        l2 == Trimmed(Field("relationship"))
        t == Trimmed(Field("entity2"))
    IN /\ number_of_nodes(knowledge_graph) = number_of_nodes(before)
       /\ number_of_edges(knowledge_graph) = number_of_edges(before)
       /\ GraphDataNow.stats = get_graph_data(before).json.stats
       /\ LabelsReported(s, t) = {l2}

ReverseEdgeUntouched ==
    LET s == Trimmed(Field("entity1"))
        t == Trimmed(Field("entity2"))
    IN <<t, s>> \in DOMAIN before.edges =>
          /\ <<t, s>> \in DOMAIN knowledge_graph.edges
          /\ knowledge_graph.edges[<<t, s>>] = before.edges[<<t, s>>]

\* C3 (as stated): adding (s, l2, t) when the edge (s, t) exists replaces its
\* label with l2, leaves the node count and the edge count unchanged, every
\* lookup reports only l2 for the pair, and the edge (t, s), if present, is not
\* affected.
C3_AsStated == AddOverwrites => (OverwriteReplacesLabel /\ ReverseEdgeUntouched)

\* C3 (amended): as C3, where the edge (t, s), if present, is not affected
\* when t and s are different entities (for s = t it is the overwritten edge).
C3_OverwriteOnePerPair ==
    AddOverwrites =>
        /\ OverwriteReplacesLabel
        /\ Trimmed(Field("entity1")) # Trimmed(Field("entity2")) => ReverseEdgeUntouched

\* The seeded edge (John Doe, Dr. Smith) got a new label while the edge
\* (Dr. Smith, John Doe) was present.
C3_Witness ==
    /\ AddOverwrites
    /\ Trimmed(Field("entity1")) = <<"John Doe">>
    /\ Trimmed(Field("entity2")) = <<"Dr. Smith">>
    /\ before.edges[<<<<"John Doe">>, <<"Dr. Smith">>>>] # Trimmed(Field("relationship"))
    /\ <<<<"Dr. Smith">>, <<"John Doe">>>> \in DOMAIN before.edges

IsQuery == request.op = "query"

\* C4: a query whose entity, trimmed, is non-empty and is not a node of the
\* graph is answered 404 with success = false, whatever query_type is (also
\* when it is missing or unknown), and the graph is unchanged.
C4_UnknownEntityNotFound ==
    (IsQuery /\ ~IsBlank(Field("entity")) /\ Trimmed(Field("entity")) \notin before.nodes) =>
        /\ response.status = 404
        /\ response.json.success = FALSE
        /\ knowledge_graph = before

\* Entity A (padded) is not in the graph; the query asks for everything.
C4_Witness ==
    /\ IsQuery
    /\ DOMAIN request.data = {"entity", "query_type"}
    /\ request.data.entity = <<"A", SP>>
    /\ request.data.query_type = <<"all">>
    /\ <<"A">> \notin before.nodes
    /\ response.status = 404

\* C5: a query whose entity is missing, empty or whitespace-only is answered
\* 400 with success = false, never 404, whatever query_type is, and the graph
\* is unchanged.
C5_BlankEntityBadRequest ==
    (IsQuery /\ IsBlank(Field("entity"))) =>
        /\ response.status = 400
        /\ response.status # 404
        /\ response.json.success = FALSE
        /\ knowledge_graph = before

\* A whitespace-only entity with a recognised query_type.
C5_Witness ==
    /\ IsQuery
    /\ DOMAIN request.data = {"entity", "query_type"}
    /\ request.data.entity = <<SP>>
    /\ request.data.query_type = <<"neighbors">>
    /\ response.status = 400

IsClear == request.op = "clear_graph"

\* The labeled edges of a graph as (source, label, target) triples.
EdgeTriples(g) == {<<p[1], g.edges[p], p[2]>> : p \in DOMAIN g.edges}

SampleTriples == {sample_relationships[i] : i \in DOMAIN sample_relationships}

\* C6: after a clear_graph request, whatever add_relationship, upload_csv and
\* clear_graph requests came before, the graph is exactly the sample set: its
\* 13 labeled edges and their endpoints, as at process start, and nothing else.
C6_ResetRestoresSeed ==
    IsClear =>
        /\ EdgeTriples(knowledge_graph) = SampleTriples
        /\ number_of_edges(knowledge_graph) = 13
        /\ knowledge_graph.nodes = {t[1] : t \in SampleTriples} \cup {t[3] : t \in SampleTriples}
        /\ knowledge_graph = initialize_sample_data(DiGraph)

\* The reset followed an add of a new entity, an overwrite of a seeded label
\* and an upload that added an entity.
C6_Witness ==
    /\ IsClear
    /\ <<"A">> \in before.nodes
    /\ <<"nan">> \in before.nodes
    /\ before.edges[<<<<"John Doe">>, <<"Dr. Smith">>>>] = <<"knows">>

\* C7: clear_graph answers 200 with success = true, a message reporting the
\* numbers of nodes and edges the graph held just before the reset, and
\* graph_data equal to the snapshot (nodes, edges, stats) of the re-seeded graph.
C7_ClearReturnsSuccessEnvelope ==
    IsClear =>
        /\ response.status = 200
        /\ response.json.success = TRUE
        /\ response.json.message = <<"Graph cleared and reset. Removed ", number_of_nodes(before),
                                     " nodes and ", number_of_edges(before), " edges.">>
        /\ response.json.graph_data.nodes = get_graph_data_dict(knowledge_graph).nodes
        /\ response.json.graph_data.edges = get_graph_data_dict(knowledge_graph).edges
        /\ response.json.graph_data.stats = get_graph_data_dict(knowledge_graph).stats

IsUpload == request.op = "upload_csv"

UploadHasTable ==
    /\ IsUpload
    /\ "file" \in DOMAIN request.files
    /\ request.files.file.filename # <<>>
    /\ request.files.file.content.kind = "csv"

\* An upload whose table has the three required columns.
UploadWithColumns ==
    UploadHasTable /\ required_columns \subseteq request.files.file.content.columns

FileRows == request.files.file.content.rows

\* A row of the file with text other than whitespace in each of the three fields.
RowWellFormed(row) == \A c \in required_columns : ~IsBlank(row[c])

WellFormedRows == {i \in DOMAIN FileRows : RowWellFormed(FileRows[i])}

RowPair(row) == <<Trimmed(row["Entity1"]), Trimmed(row["Entity2"])>>

\* C8: in a bulk import a row with a field that is empty in the file, or empty
\* after trimming, is skipped silently: it adds no node and no edge, is not
\* counted in added_count and makes no entry in errors.  (Rows (A, knows,
\* Dr. Smith), ("", advised_by, Dr. Smith) give added_count = 1.)
C8_EmptyFieldRowSkipped ==
    UploadWithColumns =>
        /\ response.status = 200
        /\ response.json.added_count = Cardinality(WellFormedRows)
        /\ response.json.errors = None
        /\ knowledge_graph.nodes \subseteq
              before.nodes \cup {RowPair(FileRows[i])[1] : i \in WellFormedRows}
                           \cup {RowPair(FileRows[i])[2] : i \in WellFormedRows}
        /\ DOMAIN knowledge_graph.edges \subseteq
              DOMAIN before.edges \cup {RowPair(FileRows[i]) : i \in WellFormedRows}

\* add_relationship applied, in file order, for the well-formed ones of the
\* first k rows.
RECURSIVE AddsApplied(_, _, _)
AddsApplied(g, rows, k) ==
    IF k = 0 THEN g
    ELSE LET done == AddsApplied(g, rows, k - 1)
         IN IF RowWellFormed(rows[k])
            THEN add_relationship(done, [entity1 |-> rows[k]["Entity1"],
                                         relationship |-> rows[k]["Relationship"],
                                         entity2 |-> rows[k]["Entity2"]]).graph
            ELSE done

\* C9: a bulk import with the required columns leaves the graph that
\* add_relationship leaves when applied for each well-formed row in file order;
\* added_count is the number of well-formed rows; the edge count grows by the
\* number of ordered pairs among them that were not edges; no row is recorded
\* in errors unless it fails.
C9_ImportIsRowwiseAdd ==
    UploadWithColumns =>
        /\ response.status = 200
        /\ response.json.success = TRUE
        /\ knowledge_graph = AddsApplied(before, FileRows, Len(FileRows))
        /\ response.json.added_count = Cardinality(WellFormedRows)
        /\ number_of_edges(knowledge_graph) - number_of_edges(before) =
              Cardinality({RowPair(FileRows[i]) : i \in WellFormedRows} \ DOMAIN before.edges)
        /\ response.json.errors = None
        /\ response.json.graph_data = get_graph_data_dict(knowledge_graph)

\* C10: a bulk import with no file part, with no file selected, or with a
\* table that lacks one of the columns Entity1, Relationship, Entity2 is
\* answered 400 with success = false and leaves the graph as it was, whatever
\* the columns that are present hold.
C10_MissingColumnRejected ==
    (IsUpload /\ (\/ "file" \notin DOMAIN request.files
                  \/ request.files.file.filename = <<>>
                  \/ (UploadHasTable /\ ~UploadWithColumns))) =>
        /\ response.status = 400
        /\ response.json.success = FALSE
        /\ knowledge_graph = before

\* A table without the Relationship column whose two rows hold entity names.
C10_Witness ==
    /\ UploadHasTable
    /\ request.files.file.content.columns = {"Entity1", "Entity2"}
    /\ Len(FileRows) = 2
    /\ \A i \in DOMAIN FileRows : \A c \in {"Entity1", "Entity2"} : ~IsBlank(FileRows[i][c])
    /\ response.status = 400

\* A query that was answered 200.
QueryAnswered == IsQuery /\ response.status = 200

\* The entities that a walk of at most k directed edges from a reaches.
RECURSIVE ReachWithin(_, _, _)
ReachWithin(g, a, k) ==
    IF k <= 0 THEN {a}
    ELSE LET near == ReachWithin(g, a, k - 1)
         IN near \cup {m \in g.nodes : \E u \in near : <<u, m>> \in DOMAIN g.edges}

Reachable(g, a) == ReachWithin(g, a, Cardinality(g.nodes))

\* C11: for every graph and every existing entity A, the shortest_paths of a
\* shortest_path or all query has as keys exactly the entities other than A
\* that directed edges reach from A (A is no key, also on a cycle or with a
\* self-loop); each value starts with A, ends with its key, follows edges of
\* the graph and has the fewest hops possible.
C11_ShortestPaths ==
    (QueryAnswered /\ Field("query_type") \in {<<"shortest_path">>, <<"all">>}) =>
        LET a == Trimmed(Field("entity"))
        IN /\ "shortest_paths" \in DOMAIN response.json.results
           /\ DOMAIN response.json.results.shortest_paths = Reachable(before, a) \ {a}
           /\ \A t \in DOMAIN response.json.results.shortest_paths :
                 LET p == response.json.results.shortest_paths[t]
                 IN /\ p[1] = a
                    /\ p[Len(p)] = t
                    /\ \A i \in 1..(Len(p) - 1) : <<p[i], p[i + 1]>> \in DOMAIN before.edges
                    /\ t \notin ReachWithin(before, a, Len(p) - 2)

\* Dr. Smith has a self-loop and lies on the cycle Dr. Smith -> John Doe ->
\* Dr. Smith; Research Group A is reached in two hops, Jane Smith is not reached.
C11_Witness ==
    /\ QueryAnswered
    /\ Field("query_type") = <<"shortest_path">>
    /\ Trimmed(Field("entity")) = <<"Dr. Smith">>
    /\ <<<<"Dr. Smith">>, <<"Dr. Smith">>>> \in DOMAIN before.edges
    /\ <<<<"Dr. Smith">>, <<"John Doe">>>> \in DOMAIN before.edges
    /\ Len(response.json.results.shortest_paths[<<"Research Group A">>]) = 3
    /\ <<"Jane Smith">> \notin DOMAIN response.json.results.shortest_paths

SameButCase(n, m) == n # m /\ lower(n) = lower(m)

\* C12: in every reachable state both endpoints of every edge are nodes, every
\* node identifier and every edge label is non-empty and has no leading or
\* trailing whitespace, and identifiers that differ only in letter case are
\* distinct nodes: an add names its nodes letter for letter, and a query is
\* answered only for the identifier as spelled.
C12_GraphWellFormed ==
    /\ \A p \in DOMAIN knowledge_graph.edges :
          /\ p[1] \in knowledge_graph.nodes
          /\ p[2] \in knowledge_graph.nodes
          /\ ~IsBlank(knowledge_graph.edges[p])
          /\ Trimmed(knowledge_graph.edges[p]) = knowledge_graph.edges[p]
    /\ \A n \in knowledge_graph.nodes : ~IsBlank(n) /\ Trimmed(n) = n
    /\ (AddWellFormed /\ response.status = 200) =>
          knowledge_graph.nodes =
              before.nodes \cup {Trimmed(Field("entity1")), Trimmed(Field("entity2"))}
    /\ QueryAnswered =>
          /\ Trimmed(Field("entity")) \in before.nodes
          /\ response.json.entity = Trimmed(Field("entity"))

\* "a" is added next to "A": both are nodes, and the edge runs between them.
C12_Witness ==
    /\ AddWellFormed
    /\ response.status = 200
    /\ SameButCase(Trimmed(Field("entity1")), Trimmed(Field("entity2")))
    /\ {<<"A">>, <<"a">>} \subseteq knowledge_graph.nodes
    /\ <<"a">> \notin before.nodes
    /\ <<<<"a">>, <<"A">>>> \in DOMAIN knowledge_graph.edges

\* Both threads have answered.
RaceDone == add_thread.pc = "done" /\ clear_thread.pc = "done"

AddSucceeded == add_thread.response.status = 200 /\ add_thread.response.json.success

AddedPair == <<add_thread.entity1, add_thread.entity2>>

SeedGraph == initialize_sample_data(DiGraph)

\* C13: a reset running concurrently with an add_relationship can lose the
\* add.  Whenever the add has looked up the shared graph before the reset
\* rebound it to a new instance, then once both requests have completed the
\* add has returned success and the graph is exactly the seed graph: the
\* added edge is absent from it (unless the seed holds that very pair).
C13_AddBeforeRebindIsLost ==
    (RaceDone /\ add_thread.target = 1) =>
        /\ AddSucceeded
        /\ knowledge_graph = SeedGraph
        /\ AddedPair \notin DOMAIN SeedGraph.edges =>
              AddedPair \notin DOMAIN knowledge_graph.edges

\* The interleaving of the claim: the add answered success, both requests
\* have completed, and the edge it added is not in the graph.
C13_Witness ==
    /\ RaceDone
    /\ AddSucceeded
    /\ add_thread.target = 1
    /\ AddedPair \notin DOMAIN knowledge_graph.edges

SeededEntities ==
    UNION {{sample_relationships[i][1], sample_relationships[i][3]} :
           i \in DOMAIN sample_relationships}

SeededPairs ==
    {<<sample_relationships[i][1], sample_relationships[i][3]>> :
     i \in DOMAIN sample_relationships}

\* C14: with requests handled one at a time, in every state the graph holds
\* every seeded entity and every seeded ordered pair as an edge (its label may
\* have been overwritten); a request other than reset removes no node and no
\* edge pair; the graph is never empty; and a shortest_path query on an
\* existing entity is answered with a shortest_paths key.
C14_SeedKeptGraphGrows ==
    /\ SeededEntities \subseteq knowledge_graph.nodes
    /\ SeededPairs \subseteq DOMAIN knowledge_graph.edges
    /\ knowledge_graph.nodes # {}
    /\ ~IsClear =>
          /\ before.nodes \subseteq knowledge_graph.nodes
          /\ DOMAIN before.edges \subseteq DOMAIN knowledge_graph.edges
    /\ (/\ IsQuery
        /\ Trimmed(Field("entity")) \in before.nodes
        /\ Field("query_type") = <<"shortest_path">>) =>
          /\ response.status = 200
          /\ "shortest_paths" \in DOMAIN response.json.results

\* A seeded edge carries an overwritten label, an added entity is in the graph,
\* and a shortest_path query on the added entity is answered.
C14_Witness ==
    /\ IsQuery
    /\ Field("query_type") = <<"shortest_path">>
    /\ Trimmed(Field("entity")) = <<"A">>
    /\ <<"A">> \in before.nodes
    /\ before.edges[<<<<"John Doe">>, <<"Dr. Smith">>>>] = <<"knows">>
    /\ "shortest_paths" \in DOMAIN response.json.results
    /\ knowledge_graph = before

\* A query that names an entity of the graph.
ExistingQuery == IsQuery /\ Trimmed(Field("entity")) \in before.nodes

\* The keys of results that a query_type selects.
SelectedKeys(query_type) ==
    CASE query_type = <<"neighbors">> -> {"neighbors"}
      [] query_type = <<"shortest_path">> -> {"shortest_paths"}
      [] query_type = <<"centrality">> -> {"centrality"}
      [] query_type = <<"all">> -> {"neighbors", "shortest_paths", "centrality"}
      [] OTHER -> {}

\* The results of the query of one kind on the same entity and graph, for
\* each choice among equally short paths.
SingleKindResults(kind) ==
    {query_graph(before, [entity |-> Field("entity"), query_type |-> kind], paths).json.results :
        paths \in shortest_paths(before, Trimmed(Field("entity")))}

====
